---- MODULE Spec2Model ----
(***************************************************************************)
(* Document analysis and routing pipeline (src/app.py) together with the   *)
(* services it calls.  One uploaded document is followed through its       *)
(* pipeline runs; the relational persistence layer is modelled as the      *)
(* committed rows (dbDocs, dbLogs) and the SQLAlchemy session as the       *)
(* in-memory attribute values (sess) plus the added, uncommitted           *)
(* ProcessingLog objects (pending).  Confidences are percentages.          *)
(***************************************************************************)
EXTENDS Integers, Sequences, FiniteSets, TLC

VARIABLES
    dbDocs,          \* committed Document rows (a sequence: id = index)
    dbLogs,          \* committed ProcessingLog rows, in insertion order
    sess,            \* attribute values of `document` held by the session
    pending,         \* ProcessingLog objects added to the session, uncommitted
    pc,              \* position of the request being served
    response,        \* what the last pipeline call returned
    runs,            \* number of pipeline runs started so far (tag of a run)
    prior,           \* committed Document row when the current run started
    stage,           \* outcome of each stage in the current run
    decision,        \* routing_result of the current run
    routing_rules,   \* DocumentRoutingService.routing_rules
    departments,     \* DocumentRoutingService.departments (insertion ordered)
    mlLoaded,        \* DocumentClassificationService.model and .vectorizer set
    mongoConnected,  \* MongoDBManager.db is a Database object
    config,          \* configuration values the services were constructed with
    call,            \* the last direct call of a service method and its result
    workers          \* position of each concurrent request thread in its run

vars == <<dbDocs, dbLogs, sess, pending, pc, response, runs, prior, stage,
          decision, routing_rules, departments, mlLoaded, mongoConnected,
          config, call, workers>>

-----------------------------------------------------------------------------
(* Bounds *)

MaxRuns == 2

-----------------------------------------------------------------------------
(* Values *)

NULL == "null"
NullConf == -1

PENDING == "pending"
PROCESSING == "processing"
COMPLETED == "completed"
FAILED == "failed"

StageNames == {"extraction", "classification", "summarization", "routing"}

Document(status) ==
    [status |-> status, extracted_text |-> NULL, summary |-> NULL,
     classification |-> NULL, confidence_score |-> NullConf,
     department |-> NULL]

ProcessingLog(module, status, run) ==
    [module |-> module, status |-> status, run |-> run]

(* Texts the extraction collaborator can return, named by an identifier;   *)
(* TextLen is len(text.strip()) and Keywords the set of the services'      *)
(* keywords that occur in text.lower() as substrings.                      *)
(*   "tiny"    : "hi"                                                      *)
(*   "invoice" : "INVOICE #1 Total Due: $500.00"                           *)
(*   "memo"    : "URGENT and confidential: see the analysis today"         *)
Texts == {"tiny", "invoice", "memo"}

TextLen(t) ==
    CASE t = "tiny" -> 2
      [] t = "invoice" -> 29
      [] t = "memo" -> 47
      [] t = "empty" -> 0
      [] t = "padded" -> 2
      [] t = "dispute" -> 58
      [] t = "note" -> 28

Keywords(t) ==
    CASE t = "tiny" -> {}
      [] t = "invoice" -> {"invoice", "total", "$"}
      [] t = "memo" -> {"urgent", "confidential", "analysis"}
      [] t = "empty" -> {}
      [] t = "padded" -> {}
      [] t = "dispute" -> {"total", "court", "attorney", "plaintiff"}
      [] t = "note" -> {}

(* Texts given to the services when they are called directly: also the    *)
(* empty string, "   hi      " (11 characters, 2 after strip()), None and  *)
(*   "dispute" : "The attorney told the court the plaintiff owes a total   *)
(*                of 5"                                                    *)
(*   "note"    : "Hello there, this is a note."                            *)
ServiceTexts == Texts \cup {"empty", "padded", "dispute", "note", NULL}

(* len(text) *)
RawLen(t) ==
    CASE t = "tiny" -> 2
      [] t = "invoice" -> 29
      [] t = "memo" -> 47
      [] t = "empty" -> 0
      [] t = "padded" -> 11
      [] t = "dispute" -> 58
      [] t = "note" -> 28

Categories == {"invoice", "contract", "resume", "legal_document", "report", "other"}

-----------------------------------------------------------------------------
(* DocumentClassificationService *)

AnyIn(words, t) == words \cap Keywords(t) # {}

(* Variant: a report is detected with confidence 0.7. *)
rule_based_classification_ReportConfident(t) ==
    IF AnyIn({"invoice", "bill", "payment", "amount due", "total"}, t)
       /\ AnyIn({"$", "usd", "total", "subtotal"}, t)
    THEN <<"invoice", 80>>
    ELSE IF AnyIn({"agreement", "contract", "terms and conditions", "whereas"}, t)
    THEN <<"contract", 70>>
    ELSE IF AnyIn({"experience", "education", "skills", "employment history"}, t)
            /\ AnyIn({"university", "degree", "work experience"}, t)
    THEN <<"resume", 75>>
    ELSE IF AnyIn({"court", "legal", "attorney", "law", "plaintiff", "defendant"}, t)
    THEN <<"legal_document", 70>>
    ELSE IF AnyIn({"executive summary", "conclusion", "analysis", "findings"}, t)
    THEN <<"report", 70>>
    ELSE <<"other", 50>>

rule_based_classification(t) ==
    IF AnyIn({"invoice", "bill", "payment", "amount due", "total"}, t)
       /\ AnyIn({"$", "usd", "total", "subtotal"}, t)
    THEN <<"invoice", 80>>
    ELSE IF AnyIn({"agreement", "contract", "terms and conditions", "whereas"}, t)
    THEN <<"contract", 70>>
    ELSE IF AnyIn({"experience", "education", "skills", "employment history"}, t)
            /\ AnyIn({"university", "degree", "work experience"}, t)
    THEN <<"resume", 75>>
    ELSE IF AnyIn({"court", "legal", "attorney", "law", "plaintiff", "defendant"}, t)
    THEN <<"legal_document", 70>>
    ELSE IF AnyIn({"executive summary", "conclusion", "analysis", "findings"}, t)
    THEN <<"report", 60>>
    ELSE <<"other", 50>>

(* What the loaded model can answer: predict() and max(predict_proba()),   *)
(* or an exception raised by the vectorizer or the model.                  *)
MLOutcomes == {<<"contract", 90>>, <<"report", 40>>, <<"raises", 0>>}

(* Variant: only a missing text is rejected, a short one is classified. *)
classify_document_NoLengthCheck(t, loaded, ml) ==
    IF t = NULL
    THEN [success |-> FALSE, category |-> "other", confidence |-> 0,
          method |-> "none"]
    ELSE IF loaded /\ ml[1] # "raises"
    THEN [success |-> TRUE, category |-> ml[1], confidence |-> ml[2],
          method |-> "machine_learning"]
    ELSE IF loaded
    THEN [success |-> FALSE, category |-> rule_based_classification(t)[1],
          confidence |-> rule_based_classification(t)[2],
          method |-> "rule_based_fallback"]
    ELSE [success |-> TRUE, category |-> rule_based_classification(t)[1],
          confidence |-> rule_based_classification(t)[2],
          method |-> "rule_based"]

classify_document(t, loaded, ml) ==
    IF t = NULL \/ TextLen(t) < 10
    THEN [success |-> FALSE, category |-> "other", confidence |-> 0,
          method |-> "none"]
    ELSE IF loaded /\ ml[1] # "raises"
    THEN [success |-> TRUE, category |-> ml[1], confidence |-> ml[2],
          method |-> "machine_learning"]
    ELSE IF loaded
    THEN [success |-> FALSE, category |-> rule_based_classification(t)[1],
          confidence |-> rule_based_classification(t)[2],
          method |-> "rule_based_fallback"]
    ELSE [success |-> TRUE, category |-> rule_based_classification(t)[1],
          confidence |-> rule_based_classification(t)[2],
          method |-> "rule_based"]

(* The strategies classify_document runs: the loaded model (lines 262-269) *)
(* and rule_based_classification (line 284, or line 296 after the model    *)
(* raised).                                                                *)
strategies_invoked(t, loaded, ml) ==
    IF t = NULL \/ TextLen(t) < 10 THEN {}
    ELSE IF loaded /\ ml[1] # "raises" THEN {"machine_learning"}
    ELSE IF loaded THEN {"machine_learning", "rule_based"}
    ELSE {"rule_based"}

-----------------------------------------------------------------------------
(* GeminiDocumentClassifier *)

Score(words, t) == Cardinality(words \cap Keywords(t))

MockOrder ==
    <<"invoice", "purchase_order", "report", "policy_circular",
      "regulatory_compliance">>

MockScore(category, t) ==
    CASE category = "invoice" ->
             Score({"invoice", "bill", "payment", "amount due", "total", "$",
                    "billing", "tax", "subtotal", "payable"}, t)
      [] category = "purchase_order" ->
             Score({"purchase order", "purchase request", "procurement", "vendor",
                    "order", "material requisition", "supplier", "quote"}, t)
      [] category = "report" ->
             Score({"report", "analysis", "summary", "finding", "conclusion",
                    "engineering report", "incident report", "investigation",
                    "performance", "monthly", "quarterly"}, t)
      [] category = "policy_circular" ->
             Score({"policy", "procedure", "guideline", "circular", "sop",
                    "standard operating", "handbook", "manual", "rule"}, t)
      [] category = "regulatory_compliance" ->
             Score({"regulatory", "compliance", "legal", "directive", "audit",
                    "regulation", "statutory", "mandatory"}, t)

mock_classifications(category) ==
    CASE category = "invoice" -> <<"Invoice", 92>>
      [] category = "purchase_order" -> <<"Purchase Order", 90>>
      [] category = "report" -> <<"Report", 85>>
      [] category = "policy_circular" -> <<"Policy / Circular", 88>>
      [] category = "regulatory_compliance" -> <<"Regulatory / Compliance", 87>>
      [] category = "other" -> <<"Other", 75>>

_classify_with_mock(t) ==
    LET max_score == CHOOSE m \in 0..10 :
                        /\ \E i \in 1..Len(MockOrder) : MockScore(MockOrder[i], t) = m
                        /\ \A i \in 1..Len(MockOrder) : MockScore(MockOrder[i], t) <= m
        best == CHOOSE i \in 1..Len(MockOrder) :
                    /\ MockScore(MockOrder[i], t) = max_score
                    /\ \A j \in 1..(i - 1) : MockScore(MockOrder[j], t) < max_score
        result == IF max_score > 0 THEN mock_classifications(MockOrder[best])
                  ELSE mock_classifications("other")
    IN  [success |-> TRUE, predicted_type |-> result[1], confidence |-> result[2],
         method |-> "mock_demo"]

(* What model.generate_content answers: an exception, a text without a    *)
(* JSON object, or a JSON object whose predicted_type and confidence may   *)
(* be absent and whose confidence may be a number of any size or a value   *)
(* float() rejects; predicted_type may also be the JSON null.              *)
GeminiAnswers ==
    {[kind |-> "error", predicted_type |-> "missing", conf |-> "missing", confidence |-> 0],
     [kind |-> "no_json", predicted_type |-> "missing", conf |-> "missing", confidence |-> 0],
     [kind |-> "json", predicted_type |-> "Invoice", conf |-> "number", confidence |-> 85],
     [kind |-> "json", predicted_type |-> "Memo", conf |-> "number", confidence |-> 150],
     [kind |-> "json", predicted_type |-> "Report", conf |-> "number", confidence |-> -20],
     [kind |-> "json", predicted_type |-> "missing", conf |-> "missing", confidence |-> 0],
     [kind |-> "json", predicted_type |-> NULL, conf |-> "number", confidence |-> 90],
     [kind |-> "json", predicted_type |-> "Invoice", conf |-> "invalid", confidence |-> 0]}

Max(a, b) == IF a >= b THEN a ELSE b
Min(a, b) == IF a <= b THEN a ELSE b

RaisedResult == [success |-> FALSE, predicted_type |-> NULL, confidence |-> NullConf,
                 method |-> "raised"]

(* Variant: the confidence of the answer is returned as it is. *)
_classify_with_gemini_Unclamped(t, answer) ==
    IF answer.kind # "json" \/ answer.conf = "invalid"
    THEN RaisedResult
    ELSE [success |-> TRUE,
          predicted_type |-> IF answer.predicted_type = "missing" THEN "Other"
                             ELSE answer.predicted_type,
          confidence |-> IF answer.conf = "missing" THEN 50 ELSE answer.confidence,
          method |-> "gemini_api"]

(* Returns RaisedResult where the method raises. *)
_classify_with_gemini(t, answer) ==
    IF answer.kind # "json" \/ answer.conf = "invalid"
    THEN RaisedResult
    ELSE [success |-> TRUE,
          predicted_type |-> IF answer.predicted_type = "missing" THEN "Other"
                             ELSE answer.predicted_type,
          confidence |-> Max(0, Min(100, IF answer.conf = "missing" THEN 50
                                         ELSE answer.confidence)),
          method |-> "gemini_api"]

gemini_classify_document(t, is_available, answer) ==
    IF t = NULL \/ TextLen(t) < 10
    THEN [success |-> FALSE, predicted_type |-> "Other", confidence |-> 0,
          method |-> "none"]
    ELSE IF is_available
    THEN IF _classify_with_gemini(t, answer) = RaisedResult
         THEN _classify_with_mock(t)
         ELSE _classify_with_gemini(t, answer)
    ELSE _classify_with_mock(t)

(* The strategies GeminiDocumentClassifier.classify_document runs. *)
gemini_invoked(t, is_available, answer) ==
    IF t = NULL \/ TextLen(t) < 10 THEN {}
    ELSE IF ~is_available THEN {"mock_demo"}
    ELSE IF _classify_with_gemini(t, answer) = RaisedResult
    THEN {"gemini_api", "mock_demo"}
    ELSE {"gemini_api"}

-----------------------------------------------------------------------------
(* SummarizationService: the pipeline reads only success and summary. A    *)
(* summary of text t is named "sum:" t.                                    *)

SummaryOf(t) ==
    CASE t = "invoice" -> "sum:invoice"
      [] t = "memo" -> "sum:memo"
      [] OTHER -> t

generate_summary(t, raises) ==
    IF t = NULL \/ TextLen(t) < 10
    THEN [success |-> FALSE, summary |-> t]
    ELSE IF raises
    THEN [success |-> FALSE, summary |-> t]
    ELSE [success |-> TRUE, summary |-> SummaryOf(t)]

(* The strategies of SummarizationService, for the calls of                *)
(* generate_summary with a method.  A text is described by what the code   *)
(* measures of it: len(text), len(text.strip()), len(text.split()), and of *)
(* preprocess_text(text) the length, the word count and the sentences      *)
(* sent_tokenize gives.  A sentence is described by its name, its length   *)
(* and the scores calculate_sentence_scores (score) and                    *)
(* keyword_based_summarization (kscore) give it in its text; two sentences *)
(* of a text with the same name are the same string.                       *)

(* The sentence has no alphabetic word outside the stop words: it gets no  *)
(* entry in sentence_scores.                                               *)
NoScore == -1

Sentence(s, len, score, kscore) ==
    [s |-> s, len |-> len, score |-> score, kscore |-> kscore]

(*   "hi"      : "hi"                                                      *)
(*   "symbols" : "##########"                                              *)
(*   "short50" : 50 plain words in two sentences                           *)
(*   "plain"   : five different sentences                                  *)
(*   "dupes"   : five sentences, the first and the third identical         *)
(*   "numbers" : four sentences, two of them made of numbers only          *)
(*   "w100", "w101", "w500", "w501" : four sentences of 100, 101, 500 and  *)
(*                                    501 words                            *)
SummaryTexts ==
    {"hi", "symbols", "short50", "plain", "dupes", "numbers",
     "w100", "w101", "w500", "w501"}

TextOf(id) ==
    CASE id = "hi" ->
            [len |-> 2, stripped |-> 2, words |-> 1, pre_len |-> 2, pre_words |-> 1,
             sentences |-> <<Sentence("hi", 2, 1, 1)>>]
      [] id = "symbols" ->
            [len |-> 10, stripped |-> 10, words |-> 1, pre_len |-> 0, pre_words |-> 0,
             sentences |-> <<>>]
      [] id = "short50" ->
            [len |-> 280, stripped |-> 280, words |-> 50, pre_len |-> 280,
             pre_words |-> 50,
             sentences |-> <<Sentence("t1", 139, 4, 4), Sentence("t2", 140, 6, 6)>>]
      [] id = "plain" ->
            [len |-> 154, stripped |-> 154, words |-> 30, pre_len |-> 154,
             pre_words |-> 30,
             sentences |-> <<Sentence("s1", 30, 2, 7), Sentence("s2", 30, 8, 3),
                             Sentence("s3", 30, 5, 5), Sentence("s4", 30, 9, 9),
                             Sentence("s5", 30, 1, 1)>>]
      [] id = "dupes" ->
            [len |-> 114, stripped |-> 114, words |-> 22, pre_len |-> 114,
             pre_words |-> 22,
             sentences |-> <<Sentence("a", 20, 9, 9), Sentence("b", 25, 5, 5),
                             Sentence("a", 20, 9, 9), Sentence("c", 30, 7, 7),
                             Sentence("d", 15, 3, 3)>>]
      [] id = "numbers" ->
            [len |-> 90, stripped |-> 90, words |-> 21, pre_len |-> 90,
             pre_words |-> 21,
             sentences |-> <<Sentence("p", 40, 6, 6), Sentence("n1", 6, NoScore, NoScore),
                             Sentence("q", 35, 4, 4),
                             Sentence("n2", 6, NoScore, NoScore)>>]
      [] id = "w100" ->
            [len |-> 501, stripped |-> 501, words |-> 100, pre_len |-> 501,
             pre_words |-> 100,
             sentences |-> <<Sentence("u1", 124, 4, 4), Sentence("u2", 125, 3, 3),
                             Sentence("u3", 124, 2, 2), Sentence("u4", 125, 1, 1)>>]
      [] id = "w101" ->
            [len |-> 606, stripped |-> 606, words |-> 101, pre_len |-> 606,
             pre_words |-> 101,
             sentences |-> <<Sentence("v1", 150, 4, 4), Sentence("v2", 151, 3, 3),
                             Sentence("v3", 150, 2, 2), Sentence("v4", 152, 1, 1)>>]
      [] id = "w500" ->
            [len |-> 1000, stripped |-> 1000, words |-> 500, pre_len |-> 1000,
             pre_words |-> 500,
             sentences |-> <<Sentence("x1", 249, 4, 4), Sentence("x2", 250, 3, 3),
                             Sentence("x3", 249, 2, 2), Sentence("x4", 249, 1, 1)>>]
      [] id = "w501" ->
            [len |-> 1002, stripped |-> 1002, words |-> 501, pre_len |-> 1002,
             pre_words |-> 501,
             sentences |-> <<Sentence("y1", 250, 4, 4), Sentence("y2", 250, 3, 3),
                             Sentence("y3", 250, 2, 2), Sentence("y4", 249, 1, 1)>>]

(* len(' '.join(sentences)) *)
RECURSIVE JoinLen(_)
JoinLen(sentences) ==
    IF sentences = <<>> THEN 0
    ELSE IF Len(sentences) = 1 THEN sentences[1].len
    ELSE sentences[1].len + 1 + JoinLen(Tail(sentences))

(* What a strategy returns: the string, described by the sentences it is   *)
(* made of (none when it is not made of sentences of the text) and its     *)
(* length, with the method whose code produced it and on which path.       *)
Summary(by, path, sentences, length) ==
    [by |-> by, path |-> path, sentences |-> sentences, length |-> length]

(* sorted(sentence_scores.items(), key=score, reverse=True)[:n]: the dict  *)
(* holds each scored string once, at its first position; the sort is       *)
(* stable.  Then the loop over the sentences, lines 113-118 (222-227).     *)
top_sentences(sentences, field, n) ==
    LET first == {i \in DOMAIN sentences :
                     /\ sentences[i][field] # NoScore
                     /\ \A j \in 1..(i - 1) : sentences[j] # sentences[i]}
        before(i) == {j \in first :
                         \/ sentences[j][field] > sentences[i][field]
                         \/ sentences[j][field] = sentences[i][field] /\ j < i}
    IN  {sentences[i] : i \in {k \in first : Cardinality(before(k)) < n}}

summary_sentences(sentences, field, n) ==
    LET top == top_sentences(sentences, field, n)
        IsTop(x) == x \in top
        kept == SelectSeq(sentences, IsTop)
    IN  IF Len(kept) <= n THEN kept ELSE SubSeq(kept, 1, n)

(* punkt_raises: sent_tokenize raises (LookupError when the punkt data is  *)
(* not installed), which the except of line 122 answers with the first 500 *)
(* characters and "...".                                                   *)
extractive_summarization(t, num_sentences, punkt_raises) ==
    IF punkt_raises
    THEN Summary("extractive", "except", <<>>,
                 IF t.pre_len > 500 THEN 503 ELSE t.pre_len)
    ELSE IF Len(t.sentences) <= num_sentences
    THEN Summary("extractive", "all", t.sentences, JoinLen(t.sentences))
    ELSE LET chosen == summary_sentences(t.sentences, "score", num_sentences)
         IN  Summary("extractive", "top", chosen, JoinLen(chosen))

(* transformer: "unavailable" (transformer_summarizer is None), "ok" or    *)
(* "raises" (the pipeline call raises).  The texts here are shorter than   *)
(* the 1024 characters of line 139.                                        *)
TransformerOutcomes == {"unavailable", "ok", "raises"}

abstractive_summarization(t, transformer, punkt_raises) ==
    IF transformer = "ok"
    THEN Summary("abstractive", "generated", <<>>, 120)
    ELSE extractive_summarization(t, 3, punkt_raises)

(* gensim: what gensim_summarize answers: some sentences of the text       *)
(* joined by newlines, an empty string, or an exception.                   *)
GensimOutcomes == {"first", "first_last", "empty", "raises"}

gensim_summarization(t, gensim, punkt_raises) ==
    IF t.pre_words < 20
    THEN Summary("gensim", "unchanged", t.sentences, t.pre_len)
    ELSE IF gensim = "first"
    THEN Summary("gensim", "textrank", <<t.sentences[1]>>, t.sentences[1].len)
    ELSE IF gensim = "first_last"
    THEN LET chosen == <<t.sentences[1], t.sentences[Len(t.sentences)]>>
         IN  Summary("gensim", "textrank", chosen, JoinLen(chosen))
    ELSE extractive_summarization(t, 3, punkt_raises)

keyword_based_summarization(t, num_sentences, punkt_raises) ==
    IF punkt_raises
    THEN extractive_summarization(t, 3, punkt_raises)
    ELSE IF Len(t.sentences) <= num_sentences
    THEN Summary("keyword", "all", t.sentences, JoinLen(t.sentences))
    ELSE LET chosen == summary_sentences(t.sentences, "kscore", num_sentences)
         IN  Summary("keyword", "top", chosen, JoinLen(chosen))

Methods == {"auto", "extractive", "abstractive", "gensim", "keyword"}

(* Variant: the boundaries 100 and 500 fall in the upper band. *)
auto_method_Inclusive(t, transformer) ==
    IF t.words >= 500 /\ transformer # "unavailable" THEN "abstractive"
    ELSE IF t.words >= 100 THEN "gensim"
    ELSE "extractive"

(* lines 281-287 *)
auto_method(t, transformer) ==
    IF t.words > 500 /\ transformer # "unavailable" THEN "abstractive"
    ELSE IF t.words > 100 THEN "gensim"
    ELSE "extractive"

(* generate_summary(text, method, num_sentences=...) with the outcomes of  *)
(* its collaborators; compression_ratio is summary_length /                *)
(* original_length where has_ratio is set, and the key is absent otherwise *)
generate_summary_result(t, method, num_sentences, transformer, gensim, punkt_raises) ==
    IF t.len = 0 \/ t.stripped < 10
    THEN [success |-> FALSE, summary |-> Summary("none", "input", t.sentences, t.len),
          method_used |-> method, original_length |-> t.len,
          summary_length |-> t.len, has_ratio |-> FALSE]
    ELSE LET m == IF method = "auto" THEN auto_method(t, transformer) ELSE method
             summary ==
                CASE m = "extractive" ->
                        extractive_summarization(t, num_sentences, punkt_raises)
                  [] m = "abstractive" ->
                        abstractive_summarization(t, transformer, punkt_raises)
                  [] m = "gensim" ->
                        gensim_summarization(t, gensim, punkt_raises)
                  [] m = "keyword" ->
                        keyword_based_summarization(t, num_sentences, punkt_raises)
         IN  [success |-> TRUE, summary |-> summary, method_used |-> m,
              original_length |-> t.len, summary_length |-> summary.length,
              has_ratio |-> TRUE]

-----------------------------------------------------------------------------
(* DocumentRoutingService *)

DefaultDepartments ==
    << [id |-> "finance",
        categories |-> {"invoice", "financial_statement", "receipt", "expense_report"}],
       [id |-> "hr",
        categories |-> {"resume", "employment_contract", "employee_handbook", "policy_document"}],
       [id |-> "legal",
        categories |-> {"contract", "legal_document", "agreement", "compliance_document"}],
       [id |-> "operations",
        categories |-> {"report", "technical_manual", "procedure_document"}],
       [id |-> "management",
        categories |-> {"executive_summary", "strategic_plan", "board_document"}],
       [id |-> "archive",
        categories |-> {"other", "unknown"}] >>

DefaultRoutingRules ==
    [confidence_threshold |-> 70, fallback_department |-> "archive"]

urgent_keywords == {"urgent", "asap", "immediate", "priority", "deadline"}
sensitive_keywords == {"confidential", "private", "restricted", "classified"}

(* Variant: invoices get the priority of financial statements. *)
priority_mapping_InvoiceMedium(category) ==
    CASE category \in {"contract", "legal_document"} -> "high"
      [] category \in {"invoice", "financial_statement", "resume"} -> "medium"
      [] category \in {"report", "other"} -> "low"
      [] OTHER -> "low"

priority_mapping(category) ==
    CASE category \in {"invoice", "contract", "legal_document"} -> "high"
      [] category \in {"financial_statement", "resume"} -> "medium"
      [] category \in {"report", "other"} -> "low"
      [] OTHER -> "low"

_determine_priority(text, category) ==
    IF AnyIn(urgent_keywords, text) THEN "urgent" ELSE priority_mapping(category)

_check_sensitive_content(text) == AnyIn(sensitive_keywords, text)

_create_routing_result(department, reason, confidence, priority, is_sensitive, needs_review) ==
    [department_id |-> department, reason |-> reason, confidence |-> confidence,
     priority |-> priority, is_sensitive |-> is_sensitive,
     needs_review |-> needs_review]

(* for dept_id, dept_info in self.departments.items(): first match, dict order *)
OwningDepartments(depts, category) ==
    {i \in 1..Len(depts) : category \in depts[i].categories}

(* Variant: the last department owning the category is taken. *)
FirstOwner_Last(depts, category) ==
    LET I == OwningDepartments(depts, category)
    IN  IF I = {} THEN NULL
        ELSE depts[CHOOSE i \in I : \A j \in I : i >= j].id

FirstOwner(depts, category) ==
    LET I == OwningDepartments(depts, category)
    IN  IF I = {} THEN NULL
        ELSE depts[CHOOSE i \in I : \A j \in I : i <= j].id

(* document_info is the dict built by the caller: classification or        *)
(* confidence may be None, and None < threshold raises TypeError, as does  *)
(* None.lower(); both land in the except branch.                           *)
determine_department(rules, depts, document_info) ==
    LET category == document_info.classification
        confidence == document_info.confidence
        text == document_info.extracted_text
    IN  IF confidence = NullConf
        THEN _create_routing_result("archive", "Error in routing", 0,
                                    "medium", FALSE, TRUE)
        ELSE IF confidence < rules.confidence_threshold
        THEN _create_routing_result("archive", "Low confidence classification",
                                    confidence, "medium", FALSE, TRUE)
        ELSE IF text = NULL
        THEN _create_routing_result("archive", "Error in routing", 0,
                                    "medium", FALSE, TRUE)
        ELSE _create_routing_result(
                 IF FirstOwner(depts, category) = NULL
                 THEN rules.fallback_department
                 ELSE FirstOwner(depts, category),
                 "Classified as category", confidence,
                 _determine_priority(text, category),
                 _check_sensitive_content(text), FALSE)

(* raises: an exception between lines 193 and 222, caught at line 224.     *)
route_document(rules, depts, document_info, raises) ==
    IF raises
    THEN [success |-> FALSE, routing_result |-> NULL]
    ELSE [success |-> TRUE,
          routing_result |-> determine_department(rules, depts, document_info)]

NoDecision ==
    _create_routing_result(NULL, NULL, NullConf, NULL, FALSE, FALSE)

(* What config.get / os.getenv give the service constructors.  The Flask   *)
(* configuration of app.py defines none of these keys, so the routing      *)
(* service of the application runs with the defaults.                      *)
AppConfig ==
    [NOTIFICATION_METHODS |-> {"email"}, EMAIL_USER |-> NULL,
     EMAIL_PASSWORD |-> NULL, WEBHOOK_URL |-> NULL, GEMINI_API_KEY |-> NULL]

NoCall == [op |-> "none"]

(* The threads of the server that handle requests at the same time. *)
Requests == {1, 2}

NoWorkers == [w \in Requests |-> "none"]

(* delivered: the SMTP session (lines 255-260) went through. *)
_send_email_notification(cfg, delivered) ==
    IF cfg.EMAIL_USER = NULL \/ cfg.EMAIL_PASSWORD = NULL
    THEN [method |-> "email", success |-> FALSE,
          error |-> "Email credentials not configured"]
    ELSE IF delivered
    THEN [method |-> "email", success |-> TRUE, error |-> NULL]
    ELSE [method |-> "email", success |-> FALSE, error |-> "smtp"]

(* delivered: requests.post returned and raise_for_status passed. *)
_send_webhook_notification(cfg, delivered) ==
    IF delivered
    THEN [method |-> "webhook", success |-> TRUE, error |-> NULL]
    ELSE [method |-> "webhook", success |-> FALSE, error |-> "http"]

(* Variant: the webhook is not attempted after a failed email. *)
notification_results_StopsAtFailure(cfg, emailOk, webhookOk) ==
    IF "email" \in cfg.NOTIFICATION_METHODS
    THEN <<_send_email_notification(cfg, emailOk)>>
         \o (IF /\ _send_email_notification(cfg, emailOk).success
                 /\ "webhook" \in cfg.NOTIFICATION_METHODS
                 /\ cfg.WEBHOOK_URL # NULL
              THEN <<_send_webhook_notification(cfg, webhookOk)>> ELSE <<>>)
    ELSE IF "webhook" \in cfg.NOTIFICATION_METHODS /\ cfg.WEBHOOK_URL # NULL
    THEN <<_send_webhook_notification(cfg, webhookOk)>>
    ELSE <<>>

(* lines 203-212 *)
notification_results(cfg, emailOk, webhookOk) ==
    (IF "email" \in cfg.NOTIFICATION_METHODS
     THEN <<_send_email_notification(cfg, emailOk)>> ELSE <<>>)
    \o (IF "webhook" \in cfg.NOTIFICATION_METHODS /\ cfg.WEBHOOK_URL # NULL
        THEN <<_send_webhook_notification(cfg, webhookOk)>> ELSE <<>>)

(* What one call of route_document returns and does.  raises: an exception *)
(* reaches the except of line 224 before line 215, for instance out of the *)
(* except branch of determine_department; audit_entries counts the calls   *)
(* of _log_routing_action (line 215).                                      *)
route_document_call(cfg, rules, depts, document_info, raises, emailOk, webhookOk) ==
    LET r == route_document(rules, depts, document_info, raises)
    IN  [success |-> r.success,
         routing_result |-> r.routing_result,
         notifications_sent |-> IF r.success
                                THEN notification_results(cfg, emailOk, webhookOk)
                                ELSE <<>>,
         audit_entries |-> IF r.success THEN 1 ELSE 0]

-----------------------------------------------------------------------------
(* Persistence: db.session.commit() writes the session's Document          *)
(* attributes and inserts the added ProcessingLog objects in the order     *)
(* they were added; a commit that raises rolls the transaction back, which *)
(* expires the attributes and expunges the added objects.                  *)

Commit(doc, logs) ==
    /\ dbDocs' = <<doc>>
    /\ dbLogs' = dbLogs \o logs
    /\ sess' = doc
    /\ pending' = <<>>

Rollback ==
    /\ sess' = dbDocs[1]
    /\ pending' = <<>>
    /\ UNCHANGED <<dbDocs, dbLogs>>

NoStage == [s \in StageNames |-> "none"]

BeginRun ==
    /\ runs' = runs + 1
    /\ pc' = "get"
    /\ response' = "none"
    /\ stage' = NoStage
    /\ decision' = NoDecision

Services == <<routing_rules, departments, mlLoaded, mongoConnected, config, call, workers>>

-----------------------------------------------------------------------------
(* Requests.  f: the persistence layer may raise.                          *)

upload_file(f) ==
    /\ pc = "idle"
    /\ dbDocs = <<>>
    /\ runs < MaxRuns
    /\ \/ /\ dbDocs' = <<Document(PENDING)>>
          /\ prior' = Document(PENDING)
          /\ BeginRun
          /\ UNCHANGED <<dbLogs, sess, pending, Services>>
       \/ /\ f
          /\ response' = "upload_error"
          /\ UNCHANGED <<dbDocs, dbLogs, sess, pending, pc, runs, prior, stage,
                         decision, Services>>

process_document(f) ==
    /\ pc = "idle"
    /\ dbDocs # <<>>
    /\ runs < MaxRuns
    /\ \/ /\ IF dbDocs[1].status = PROCESSING
             THEN /\ response' = "rejected"
                  /\ UNCHANGED <<pc, runs, prior, stage, decision>>
             ELSE /\ prior' = dbDocs[1]
                  /\ BeginRun
          /\ UNCHANGED <<dbDocs, dbLogs, sess, pending, Services>>
       \/ /\ f
          /\ response' = "request_error"
          /\ UNCHANGED <<dbDocs, dbLogs, sess, pending, pc, runs, prior, stage,
                         decision, Services>>

-----------------------------------------------------------------------------
(* process_document_pipeline, one action per block of the function.        *)

query_document(f) ==
    /\ pc = "get"
    /\ \/ /\ sess' = dbDocs[1]
          /\ pc' = "mark"
          /\ UNCHANGED response
       \/ /\ f
          /\ response' = "raised"
          /\ pc' = "idle"
          /\ UNCHANGED sess
    /\ UNCHANGED <<dbDocs, dbLogs, pending, runs, prior, stage, decision, Services>>

(* Mutation: the run commits without setting the status. *)
mark_processing_Skipped(f) ==
    /\ pc = "mark"
    /\ \/ /\ Commit(sess, pending)
          /\ pc' = "logstart"
       \/ /\ f
          /\ Rollback
          /\ pc' = "handler"
    /\ UNCHANGED <<response, runs, prior, stage, decision, Services>>

mark_processing(f) ==
    /\ pc = "mark"
    /\ \/ /\ Commit([sess EXCEPT !.status = PROCESSING], pending)
          /\ pc' = "logstart"
       \/ /\ f
          /\ Rollback
          /\ pc' = "handler"
    /\ UNCHANGED <<response, runs, prior, stage, decision, Services>>

log_start(f) ==
    /\ pc = "logstart"
    /\ \/ /\ Commit(sess, Append(pending, ProcessingLog("pipeline", "started", runs)))
          /\ pc' = "extract"
       \/ /\ f
          /\ Rollback
          /\ pc' = "handler"
    /\ UNCHANGED <<response, runs, prior, stage, decision, Services>>

(* Mutation: the failure is logged but the pipeline goes on. *)
ExtractionFailed_Continues(doc, f) ==
    /\ stage' = [stage EXCEPT !["extraction"] = "failed"]
    /\ sess' = [doc EXCEPT !.status = FAILED]
    /\ pending' = Append(pending, ProcessingLog("extraction", "failed", runs))
    /\ pc' = "classify"
    /\ UNCHANGED <<dbDocs, dbLogs, response>>

ExtractionFailed(doc, f) ==
    /\ stage' = [stage EXCEPT !["extraction"] = "failed"]
    /\ \/ /\ Commit([doc EXCEPT !.status = FAILED],
                    Append(pending, ProcessingLog("extraction", "failed", runs)))
          /\ response' = "extraction_error"
          /\ pc' = "idle"
       \/ /\ f
          /\ Rollback
          /\ pc' = "handler"
          /\ UNCHANGED response

(* The try block of lines 277-296.  extraction_service.process_document    *)
(* returns success = false (first disjunct) or a text.  With a text,       *)
(* store_extracted_data (models.py 76-91) evaluates `not self.db`: on a    *)
(* pymongo 4 Database object (setup_and_run.py 70) truth testing raises    *)
(* NotImplementedError, which lands in the except branch of line 297 after *)
(* extracted_text was assigned; with db None it calls connect() and        *)
(* returns without raising.                                                *)
text_extraction(f) ==
    /\ pc = "extract"
    /\ \/ /\ ExtractionFailed(sess, f)
          /\ UNCHANGED mongoConnected
       \/ \E text \in Texts :
             IF mongoConnected
             THEN /\ ExtractionFailed([sess EXCEPT !.extracted_text = text], f)
                  /\ UNCHANGED mongoConnected
             ELSE /\ mongoConnected' \in BOOLEAN
                  /\ sess' = [sess EXCEPT !.extracted_text = text]
                  /\ pending' = Append(pending,
                                       ProcessingLog("extraction", "completed", runs))
                  /\ stage' = [stage EXCEPT !["extraction"] = "completed"]
                  /\ pc' = "classify"
                  /\ UNCHANGED <<dbDocs, dbLogs, response>>
    /\ UNCHANGED <<runs, prior, decision, routing_rules, departments, mlLoaded,
                   config, call, workers>>

(* Mutation: the entry is put in front of the entries not yet committed. *)
StageDone_Prepends(name, ok) ==
    /\ pending' = <<ProcessingLog(name, IF ok THEN "completed" ELSE "failed", runs)>>
                  \o pending
    /\ stage' = [stage EXCEPT ![name] = IF ok THEN "completed" ELSE "failed"]

StageDone(name, ok) ==
    /\ pending' = Append(pending,
                         ProcessingLog(name, IF ok THEN "completed" ELSE "failed", runs))
    /\ stage' = [stage EXCEPT ![name] = IF ok THEN "completed" ELSE "failed"]

classification ==
    /\ pc = "classify"
    /\ \E ml \in MLOutcomes :
          LET r == classify_document(sess.extracted_text, mlLoaded, ml)
          IN  /\ sess' = IF r.success
                         THEN [sess EXCEPT !.classification = r.category,
                                           !.confidence_score = r.confidence]
                         ELSE sess
              /\ StageDone("classification", r.success)
    /\ pc' = "summarize"
    /\ UNCHANGED <<dbDocs, dbLogs, response, runs, prior, decision, Services>>

summarization ==
    /\ pc = "summarize"
    /\ \E raises \in BOOLEAN :
          LET r == generate_summary(sess.extracted_text, raises)
          IN  /\ sess' = IF r.success
                         THEN [sess EXCEPT !.summary = r.summary]
                         ELSE sess
              /\ StageDone("summarization", r.success)
    /\ pc' = "route"
    /\ UNCHANGED <<dbDocs, dbLogs, response, runs, prior, decision, Services>>

routing ==
    /\ pc = "route"
    /\ \E raises \in BOOLEAN :
          LET document_info == [classification |-> sess.classification,
                                confidence |-> sess.confidence_score,
                                extracted_text |-> sess.extracted_text]
              r == route_document(routing_rules, departments, document_info, raises)
          IN  /\ sess' = IF r.success
                         THEN [sess EXCEPT !.department = r.routing_result.department_id]
                         ELSE sess
              /\ decision' = IF r.success THEN r.routing_result ELSE NoDecision
              /\ StageDone("routing", r.success)
    /\ pc' = "final"
    /\ UNCHANGED <<dbDocs, dbLogs, response, runs, prior, Services>>

(* Mutation: a failed stage makes the run end failed. *)
finish_FailedStageFails(f) ==
    /\ pc = "final"
    /\ \/ /\ Commit([sess EXCEPT !.status =
                        IF \E s \in StageNames : stage[s] = "failed"
                        THEN FAILED ELSE COMPLETED],
                    Append(pending, ProcessingLog("pipeline", "completed", runs)))
          /\ response' = "success"
          /\ pc' = "idle"
       \/ /\ f
          /\ Rollback
          /\ pc' = "handler"
          /\ UNCHANGED response
    /\ UNCHANGED <<runs, prior, stage, decision, Services>>

finish(f) ==
    /\ pc = "final"
    /\ \/ /\ Commit([sess EXCEPT !.status = COMPLETED],
                    Append(pending, ProcessingLog("pipeline", "completed", runs)))
          /\ response' = "success"
          /\ pc' = "idle"
       \/ /\ f
          /\ Rollback
          /\ pc' = "handler"
          /\ UNCHANGED response
    /\ UNCHANGED <<runs, prior, stage, decision, Services>>

(* except Exception (line 419) with `document` bound *)
handle_exception ==
    /\ pc = "handler"
    /\ \/ /\ Commit([sess EXCEPT !.status = FAILED],
                    Append(pending, ProcessingLog("pipeline", "failed", runs)))
          /\ response' = "pipeline_error"
       \/ /\ Rollback
          /\ response' = "raised"
    /\ pc' = "idle"
    /\ UNCHANGED <<runs, prior, stage, decision, Services>>

-----------------------------------------------------------------------------
(* DocumentRoutingService configuration calls *)

NewRules ==
    {[fallback_department |-> "legal"], [fallback_department |-> "archive"],
     [confidence_threshold |-> 50], [confidence_threshold |-> 70]}

update_routing_rules(new_rules) ==
    /\ pc = "idle"
    /\ routing_rules' = [k \in DOMAIN routing_rules |->
                            IF k \in DOMAIN new_rules THEN new_rules[k]
                            ELSE routing_rules[k]]
    /\ routing_rules' # routing_rules
    /\ UNCHANGED <<dbDocs, dbLogs, sess, pending, pc, response, runs, prior,
                   stage, decision, departments, mlLoaded, mongoConnected,
                   config, call, workers>>

NewDepartments ==
    {[id |-> "finance", categories |-> {"receipt"}],
     [id |-> "audit", categories |-> {"invoice", "report"}]}

add_department(department_id, department_info) ==
    /\ pc = "idle"
    /\ departments' =
          IF \E i \in 1..Len(departments) : departments[i].id = department_id
          THEN [i \in 1..Len(departments) |->
                   IF departments[i].id = department_id THEN department_info
                   ELSE departments[i]]
          ELSE Append(departments, department_info)
    /\ departments' # departments
    /\ UNCHANGED <<dbDocs, dbLogs, sess, pending, pc, response, runs, prior,
                   stage, decision, routing_rules, mlLoaded, mongoConnected,
                   config, call, workers>>

-----------------------------------------------------------------------------
(* Direct calls of the service methods.  The services keep nothing from    *)
(* one call to the next besides their configuration, so a behaviour        *)
(* records one call, made after any number of configuration calls.         *)

Pipeline == <<dbDocs, dbLogs, sess, pending, pc, response, runs, prior, stage,
              decision>>

DocumentInfos ==
    {[classification |-> "invoice", confidence |-> 80, extracted_text |-> "invoice"],
     [classification |-> "invoice", confidence |-> 40, extracted_text |-> "memo"],
     [classification |-> "report", confidence |-> 90, extracted_text |-> "memo"],
     [classification |-> "letter", confidence |-> 75, extracted_text |-> "invoice"]}

call_determine_department ==
    /\ call = NoCall
    /\ \E document_info \in DocumentInfos :
          call' = [op |-> "determine_department", document_info |-> document_info,
                   result |-> determine_department(routing_rules, departments,
                                                   document_info)]
    /\ UNCHANGED <<Pipeline, routing_rules, departments, mlLoaded, mongoConnected,
                   config, workers>>

call_route_document ==
    /\ call = NoCall
    /\ \E document_info \in DocumentInfos, raises \in BOOLEAN,
          emailOk \in BOOLEAN, webhookOk \in BOOLEAN :
          call' = [op |-> "route_document", document_info |-> document_info,
                   raises |-> raises, emailOk |-> emailOk, webhookOk |-> webhookOk,
                   result |-> route_document_call(config, routing_rules, departments,
                                 document_info, raises, emailOk, webhookOk)]
    /\ UNCHANGED <<Pipeline, routing_rules, departments, mlLoaded, mongoConnected,
                   config, workers>>

call_classify_document ==
    /\ call = NoCall
    /\ \E text \in ServiceTexts, ml \in MLOutcomes :
          call' = [op |-> "classify_document", text |-> text, ml |-> ml,
                   result |-> classify_document(text, mlLoaded, ml),
                   invoked |-> strategies_invoked(text, mlLoaded, ml)]
    /\ UNCHANGED <<Pipeline, routing_rules, departments, mlLoaded, mongoConnected,
                   config, workers>>

call_gemini_classify_document ==
    /\ call = NoCall
    /\ \E text \in ServiceTexts, answer \in GeminiAnswers :
          call' = [op |-> "gemini_classify_document", text |-> text,
                   answer |-> answer,
                   result |-> gemini_classify_document(
                                 text, config.GEMINI_API_KEY # NULL, answer),
                   invoked |-> gemini_invoked(
                                 text, config.GEMINI_API_KEY # NULL, answer)]
    /\ UNCHANGED <<Pipeline, routing_rules, departments, mlLoaded, mongoConnected,
                   config, workers>>

NumSentences == {2, 3}

call_generate_summary ==
    /\ call = NoCall
    /\ \E text \in SummaryTexts, method \in Methods, num_sentences \in NumSentences,
          transformer \in TransformerOutcomes, gensim \in GensimOutcomes,
          punkt_raises \in BOOLEAN :
          call' = [op |-> "generate_summary", text |-> text, method |-> method,
                   num_sentences |-> num_sentences, transformer |-> transformer,
                   gensim |-> gensim, punkt_raises |-> punkt_raises,
                   result |-> generate_summary_result(TextOf(text), method,
                                 num_sentences, transformer, gensim, punkt_raises)]
    /\ UNCHANGED <<Pipeline, routing_rules, departments, mlLoaded, mongoConnected,
                   config, workers>>

(* Configurations the services can be constructed with. *)
Configs ==
    {[NOTIFICATION_METHODS |-> m, EMAIL_USER |-> c[1], EMAIL_PASSWORD |-> c[2],
      WEBHOOK_URL |-> u, GEMINI_API_KEY |-> NULL] :
        m \in SUBSET {"email", "webhook"},
        c \in {<<NULL, NULL>>, <<"user", NULL>>, <<"user", "password">>},
        u \in {NULL, "url"}}
    \cup {[AppConfig EXCEPT !.GEMINI_API_KEY = "key"]}

-----------------------------------------------------------------------------

Init ==
    /\ dbDocs = <<>>
    /\ dbLogs = <<>>
    /\ sess = Document(NULL)
    /\ pending = <<>>
    /\ pc = "idle"
    /\ response = "none"
    /\ runs = 0
    /\ prior = Document(NULL)
    /\ stage = NoStage
    /\ decision = NoDecision
    /\ routing_rules = DefaultRoutingRules
    /\ departments = DefaultDepartments
    /\ mlLoaded \in BOOLEAN
    /\ mongoConnected \in BOOLEAN
    /\ config = AppConfig
    /\ call = NoCall
    /\ workers = NoWorkers

(* Persistence never raises. *)
Next ==
    \/ upload_file(FALSE)
    \/ process_document(FALSE)
    \/ query_document(FALSE)
    \/ mark_processing(FALSE)
    \/ log_start(FALSE)
    \/ text_extraction(FALSE)
    \/ classification
    \/ summarization
    \/ routing
    \/ finish(FALSE)
    \/ \E new_rules \in NewRules : update_routing_rules(new_rules)
    \/ \E d \in NewDepartments : add_department(d.id, d)

Spec == Init /\ [][Next]_vars

(* Queries and commits may raise. *)
FaultNext ==
    \/ upload_file(TRUE)
    \/ process_document(TRUE)
    \/ query_document(TRUE)
    \/ mark_processing(TRUE)
    \/ log_start(TRUE)
    \/ text_extraction(TRUE)
    \/ classification
    \/ summarization
    \/ routing
    \/ finish(TRUE)
    \/ handle_exception

FaultSpec == Init /\ [][FaultNext]_vars

(* The services by themselves, constructed with any configuration. *)
ServiceInit ==
    /\ dbDocs = <<>>
    /\ dbLogs = <<>>
    /\ sess = Document(NULL)
    /\ pending = <<>>
    /\ pc = "idle"
    /\ response = "none"
    /\ runs = 0
    /\ prior = Document(NULL)
    /\ stage = NoStage
    /\ decision = NoDecision
    /\ routing_rules = DefaultRoutingRules
    /\ departments = DefaultDepartments
    /\ mlLoaded \in BOOLEAN
    /\ mongoConnected = FALSE
    /\ config \in Configs
    /\ call = NoCall
    /\ workers = NoWorkers

ServiceNext ==
    \/ call_determine_department
    \/ call_route_document
    \/ call_classify_document
    \/ call_gemini_classify_document
    \/ \E new_rules \in NewRules : update_routing_rules(new_rules)
    \/ \E d \in NewDepartments : add_department(d.id, d)

ServiceSpec == ServiceInit /\ [][ServiceNext]_vars

(* The pipeline of an application configured with email credentials or    *)
(* without, with the scheduling its code justifies: every step of a run    *)
(* goes on to the next, except that route_document does not return while   *)
(* smtplib.SMTP(...), starttls, login or sendmail (lines 255-260, no       *)
(* timeout given) wait for the server.                                     *)
EmailConfig ==
    [AppConfig EXCEPT !.EMAIL_USER = "user", !.EMAIL_PASSWORD = "password"]

LiveInit ==
    /\ dbDocs = <<>>
    /\ dbLogs = <<>>
    /\ sess = Document(NULL)
    /\ pending = <<>>
    /\ pc = "idle"
    /\ response = "none"
    /\ runs = 0
    /\ prior = Document(NULL)
    /\ stage = NoStage
    /\ decision = NoDecision
    /\ routing_rules = DefaultRoutingRules
    /\ departments = DefaultDepartments
    /\ mlLoaded \in BOOLEAN
    /\ mongoConnected \in BOOLEAN
    /\ config \in {AppConfig, EmailConfig}
    /\ call = NoCall
    /\ workers = NoWorkers

LiveNext ==
    \/ upload_file(FALSE)
    \/ process_document(FALSE)
    \/ query_document(FALSE)
    \/ mark_processing(FALSE)
    \/ log_start(FALSE)
    \/ text_extraction(FALSE)
    \/ classification
    \/ summarization
    \/ routing
    \/ finish(FALSE)

SmtpAttempted ==
    /\ "email" \in config.NOTIFICATION_METHODS
    /\ config.EMAIL_USER # NULL
    /\ config.EMAIL_PASSWORD # NULL

Fairness ==
    /\ WF_vars(query_document(FALSE))
    /\ WF_vars(mark_processing(FALSE))
    /\ WF_vars(log_start(FALSE))
    /\ WF_vars(text_extraction(FALSE))
    /\ WF_vars(classification)
    /\ WF_vars(summarization)
    /\ WF_vars(routing /\ ~SmtpAttempted)
    /\ WF_vars(finish(FALSE))

LiveSpec == LiveInit /\ [][LiveNext]_vars /\ Fairness

(* Requests on one document handled by concurrent threads, each with its  *)
(* own database session: a step is one database operation of the request,  *)
(* and the stages between the start entry and the final commit are one     *)
(* step.  A commit writes the attributes its thread changed: the status.   *)
At(w, position) == workers' = [workers EXCEPT ![w] = position]

SetStatus(status, logs) ==
    /\ dbDocs' = <<[dbDocs[1] EXCEPT !.status = status]>>
    /\ dbLogs' = dbLogs \o logs

ConcUnchanged ==
    UNCHANGED <<sess, pending, pc, prior, stage, decision, routing_rules,
                departments, mlLoaded, mongoConnected, config, call>>

(* upload_file, lines 117-131: the row is committed as pending, then the   *)
(* pipeline is called.                                                     *)
conc_upload_file(w) ==
    /\ workers[w] = "none"
    /\ dbDocs = <<>>
    /\ runs < MaxRuns
    /\ dbDocs' = <<Document(PENDING)>>
    /\ runs' = runs + 1
    /\ At(w, "get")
    /\ UNCHANGED <<dbLogs, response>>
    /\ ConcUnchanged

(* process_document, lines 184-190 *)
conc_process_document(w) ==
    /\ workers[w] = "none"
    /\ dbDocs # <<>>
    /\ runs < MaxRuns
    /\ IF dbDocs[1].status = PROCESSING
       THEN /\ response' = "rejected"
            /\ UNCHANGED <<runs, workers>>
       ELSE /\ runs' = runs + 1
            /\ At(w, "get")
            /\ UNCHANGED response
    /\ UNCHANGED <<dbDocs, dbLogs>>
    /\ ConcUnchanged

(* line 258 *)
conc_query_document(w) ==
    /\ workers[w] = "get"
    /\ At(w, "mark")
    /\ UNCHANGED <<dbDocs, dbLogs, response, runs>>
    /\ ConcUnchanged

(* lines 263-264 *)
conc_mark_processing(w) ==
    /\ workers[w] = "mark"
    /\ SetStatus(PROCESSING, <<>>)
    /\ At(w, "logstart")
    /\ UNCHANGED <<response, runs>>
    /\ ConcUnchanged

(* lines 267-274 *)
conc_log_start(w) ==
    /\ workers[w] = "logstart"
    /\ SetStatus(dbDocs[1].status, <<ProcessingLog("pipeline", "started", w)>>)
    /\ At(w, "stages")
    /\ UNCHANGED <<response, runs>>
    /\ ConcUnchanged

(* lines 276-398: the extraction fails and the run ends failed (line 306), *)
(* or the stages add their entries to the session.                         *)
conc_stages(w) ==
    /\ workers[w] = "stages"
    /\ \/ /\ SetStatus(FAILED, <<ProcessingLog("extraction", "failed", w)>>)
          /\ At(w, "none")
          /\ response' = "extraction_error"
       \/ /\ At(w, "final")
          /\ UNCHANGED <<dbDocs, dbLogs, response>>
    /\ UNCHANGED runs
    /\ ConcUnchanged

(* lines 400-411 *)
conc_finish(w) ==
    /\ workers[w] = "final"
    /\ \E c \in {"completed", "failed"}, r \in {"completed", "failed"} :
          SetStatus(COMPLETED, <<ProcessingLog("extraction", "completed", w),
                                 ProcessingLog("classification", c, w),
                                 ProcessingLog("summarization", c, w),
                                 ProcessingLog("routing", r, w),
                                 ProcessingLog("pipeline", "completed", w)>>)
    /\ At(w, "none")
    /\ response' = "success"
    /\ UNCHANGED runs
    /\ ConcUnchanged

ConcNext ==
    \E w \in Requests :
        \/ conc_upload_file(w)
        \/ conc_process_document(w)
        \/ conc_query_document(w)
        \/ conc_mark_processing(w)
        \/ conc_log_start(w)
        \/ conc_stages(w)
        \/ conc_finish(w)

ConcSpec == Init /\ [][ConcNext]_vars

(* The summarization service by itself. *)
SummaryNext == call_generate_summary

SummarySpec == Init /\ [][SummaryNext]_vars

-----------------------------------------------------------------------------
(* Properties *)

LogsOfRun(log, r) == SelectSeq(log, LAMBDA e : e.run = r)

Count(log, module, status, r) ==
    Cardinality({i \in 1..Len(log) :
                    log[i] = ProcessingLog(module, status, r)})

CountModule(log, module, r) ==
    Cardinality({i \in 1..Len(log) : log[i].module = module /\ log[i].run = r})

RunEnded == pc = "idle" /\ runs > 0

(* C1: when the extraction step reports success = false or raises, the    *)
(* run stops there: the document is persisted as failed, exactly one       *)
(* extraction/failed entry of the run is persisted, and no classification, *)
(* summarization or routing entry is written nor any of those services     *)
(* invoked in that run.                                                    *)
C1_ExtractionFailureIsFatal ==
    stage["extraction"] = "failed" =>
        /\ pc = "idle"
        /\ response = "extraction_error"
        /\ dbDocs[1].status = FAILED
        /\ pending = <<>>
        /\ LogsOfRun(dbLogs, runs) =
              << ProcessingLog("pipeline", "started", runs),
                 ProcessingLog("extraction", "failed", runs) >>
        /\ \A s \in StageNames \ {"extraction"} : stage[s] = "none"

C1_Witness ==
    /\ stage["extraction"] = "failed"
    /\ pc = "idle"
    /\ dbDocs[1].status = FAILED
    /\ dbDocs[1].extracted_text # NULL

(* C2: a run ends completed if and only if its extraction step succeeded;  *)
(* after a successful extraction every later stage executes whatever the   *)
(* outcome of the stages before it, and each stage writes exactly one      *)
(* entry, failed for exactly the stages that failed.                       *)
C2_CompletedIffExtracted ==
    RunEnded =>
        /\ (dbDocs[1].status = COMPLETED) <=> (stage["extraction"] = "completed")
        /\ dbDocs[1].status \in {COMPLETED, FAILED}
        /\ stage["extraction"] = "completed" =>
              /\ response = "success"
              /\ \A s \in StageNames :
                    /\ stage[s] \in {"completed", "failed"}
                    /\ CountModule(dbLogs, s, runs) = 1
                    /\ Count(dbLogs, s, stage[s], runs) = 1

C2_Witness ==
    /\ RunEnded
    /\ dbDocs[1].status = COMPLETED
    /\ stage["classification"] = "failed"
    /\ stage["summarization"] = "failed"
    /\ stage["routing"] = "failed"

(* C3 (as claimed): when a run ends, the field of every stage that failed  *)
(* in that run is unset.                                                   *)
C3_FailedStageFieldUnset ==
    RunEnded =>
        /\ stage["classification"] = "failed" =>
              /\ dbDocs[1].classification = NULL
              /\ dbDocs[1].confidence_score = NullConf
        /\ stage["summarization"] = "failed" => dbDocs[1].summary = NULL
        /\ stage["routing"] = "failed" => dbDocs[1].department = NULL

(* C4 (as claimed): in a run whose classification failed, routing executes *)
(* and its decision is the one determine_department gives for category     *)
(* 'other' with confidence 0.0, the low-confidence decision.               *)
C4_FailedClassificationRoutesLowConfidence ==
    (pc = "final" /\ stage["classification"] = "failed") =>
        /\ stage["routing"] # "none"
        /\ stage["routing"] = "completed" =>
              /\ decision = determine_department(routing_rules, departments,
                               [classification |-> "other", confidence |-> 0,
                                extracted_text |-> sess.extracted_text])
              /\ decision.reason = "Low confidence classification"
              /\ decision.needs_review

StatusOf(docs) == IF docs = <<>> THEN "absent" ELSE docs[1].status

C6_ProcessingAtomicWithStartEntry ==
    StatusOf(dbDocs) = PROCESSING => Count(dbLogs, "pipeline", "started", runs) = 1

(* C7 (as claimed): when a stage starts, the field and the entry written   *)
(* by the stage before it are already persisted.                           *)
C7_StageOutputPersistedBeforeNext ==
    /\ pc = "classify" =>
          /\ dbDocs[1].extracted_text = sess.extracted_text
          /\ CountModule(dbLogs, "extraction", runs) = 1
    /\ pc = "summarize" =>
          /\ dbDocs[1].classification = sess.classification
          /\ dbDocs[1].confidence_score = sess.confidence_score
          /\ CountModule(dbLogs, "classification", runs) = 1
    /\ pc = "route" =>
          /\ dbDocs[1].summary = sess.summary
          /\ CountModule(dbLogs, "summarization", runs) = 1

IsPrefix(a, b) == Len(a) <= Len(b) /\ SubSeq(b, 1, Len(a)) = a

EntryIf(module, status, r) ==
    IF status = "none" THEN <<>> ELSE <<ProcessingLog(module, status, r)>>

(* The entries a run has written so far, in stage order. *)
ExpectedLogs ==
    IF pc \in {"get", "mark", "logstart"} THEN <<>>
    ELSE <<ProcessingLog("pipeline", "started", runs)>>
         \o EntryIf("extraction", stage["extraction"], runs)
         \o EntryIf("classification", stage["classification"], runs)
         \o EntryIf("summarization", stage["summarization"], runs)
         \o EntryIf("routing", stage["routing"], runs)
         \o EntryIf("pipeline",
                    IF pc = "idle" /\ stage["extraction"] = "completed"
                    THEN "completed" ELSE "none", runs)

C8_StageOrder ==
    runs > 0 =>
        /\ LogsOfRun(dbLogs \o pending, runs) = ExpectedLogs
        /\ \A i, j \in 1..Len(dbLogs) : i <= j => dbLogs[i].run <= dbLogs[j].run
        /\ RunEnded => pending = <<>>
        /\ sess.extracted_text # prior.extracted_text /\ pc # "get" =>
              stage["extraction"] # "none"
        /\ (sess.classification # prior.classification
            \/ sess.confidence_score # prior.confidence_score) /\ pc # "get" =>
              stage["classification"] = "completed"
        /\ sess.summary # prior.summary /\ pc # "get" =>
              stage["summarization"] = "completed"
        /\ sess.department # prior.department /\ pc # "get" =>
              stage["routing"] = "completed"

(* C8: the entries of a run are written in stage order (started,           *)
(* extraction, then one classification, one summarization and one routing  *)
(* entry, then pipeline completed), every field a stage changes has that   *)
(* stage's entry, and persisted entries are only ever appended to.         *)
C8_LogInStageOrder ==
    /\ []C8_StageOrder
    /\ [][IsPrefix(dbLogs, dbLogs')]_vars

C8_Witness ==
    /\ RunEnded
    /\ runs > 1
    /\ Len(LogsOfRun(dbLogs, runs)) = 6
    /\ Len(LogsOfRun(dbLogs, 1)) = 6

(* C9 (as claimed): a run in which an exception escapes the per-stage      *)
(* handlers returns an error result, never raises, and leaves the document *)
(* persisted as failed with exactly one pipeline/failed entry.             *)
C9_EscapedExceptionEndsFailed ==
    RunEnded =>
        /\ response # "raised"
        /\ response = "pipeline_error" =>
              /\ dbDocs[1].status = FAILED
              /\ Count(dbLogs, "pipeline", "failed", runs) = 1

Confidences == {0, 40, 50, 69, 70, 90}

(* C10 (as claimed): below the configured threshold determine_department   *)
(* returns the configured fallback department with needs_review set, for   *)
(* every category and text, whatever rules and departments are configured. *)
C10_LowConfidenceToFallback ==
    \A category \in Categories, confidence \in Confidences, text \in Texts :
        confidence < routing_rules.confidence_threshold =>
            LET r == determine_department(routing_rules, departments,
                        [classification |-> category, confidence |-> confidence,
                         extracted_text |-> text])
            IN  /\ r.department_id = routing_rules.fallback_department
                /\ r.needs_review

-----------------------------------------------------------------------------
(* Properties of the services called directly *)

RoutedCategories == Categories \cup {"letter"}

(* C11 (as claimed): every decision of determine_department, below the     *)
(* threshold as well, has priority 'urgent' when the text contains an      *)
(* urgent keyword and the category's mapped priority ('low' when unmapped) *)
(* otherwise.                                                              *)
C11_PriorityFromKeywordsAndCategory ==
    \A category \in RoutedCategories, confidence \in Confidences, text \in Texts :
        LET r == determine_department(routing_rules, departments,
                    [classification |-> category, confidence |-> confidence,
                     extracted_text |-> text])
        IN  r.priority = IF urgent_keywords \cap Keywords(text) # {}
                         THEN "urgent"
                         ELSE priority_mapping(category)

(* C12 (as claimed): every decision of determine_department, below the     *)
(* threshold as well, has is_sensitive set when the text contains a        *)
(* sensitive keyword.                                                      *)
C12_SensitiveWheneverKeyword ==
    \A category \in RoutedCategories, confidence \in Confidences, text \in Texts :
        LET r == determine_department(routing_rules, departments,
                    [classification |-> category, confidence |-> confidence,
                     extracted_text |-> text])
        IN  sensitive_keywords \cap Keywords(text) # {} => r.is_sensitive

(* The channels route_document is asked to notify and that have their      *)
(* settings: email with both credentials, webhook with its URL.            *)
ConfiguredChannels(cfg) ==
    {ch \in cfg.NOTIFICATION_METHODS :
        \/ ch = "email" /\ cfg.EMAIL_USER # NULL /\ cfg.EMAIL_PASSWORD # NULL
        \/ ch = "webhook" /\ cfg.WEBHOOK_URL # NULL}

RecordsOf(results, ch) == {i \in 1..Len(results) : results[i].method = ch}

Delivered(c, ch) == IF ch = "email" THEN c.emailOk ELSE c.webhookOk

C14_UnconfiguredChannelSkipped ==
    (call.op = "route_document" /\ ~call.raises) =>
        \A ch \in {"email", "webhook"} \ ConfiguredChannels(config) :
            RecordsOf(call.result.notifications_sent, ch) = {}

(* C15 (as claimed): every call of route_document records the routing      *)
(* action exactly once, on the path that returns success = false as well.  *)
C15_OneAuditEntryPerCall ==
    call.op = "route_document" => call.result.audit_entries = 1

(* C16 (as claimed): when the loaded model raises on a text of at least 10 *)
(* characters, classify_document returns a successful result that the      *)
(* rule-based strategy produced.                                           *)
C16_MLFailureNotSurfaced ==
    (/\ call.op = "classify_document"
     /\ call.text # NULL
     /\ TextLen(call.text) >= 10
     /\ mlLoaded
     /\ call.ml[1] = "raises") =>
        /\ call.result.success
        /\ call.result.category = rule_based_classification(call.text)[1]

(* C17 (as claimed): with no ML model loaded and an LLM configured,        *)
(* classify_document consults the LLM and returns the LLM's result.        *)
C17_LLMBeforeRuleBased ==
    (/\ call.op = "classify_document"
     /\ call.text # NULL
     /\ TextLen(call.text) >= 10
     /\ ~mlLoaded
     /\ config.GEMINI_API_KEY # NULL) =>
        /\ "gemini_api" \in call.invoked
        /\ call.result.method = "gemini_api"

(* C18: for a text of fewer than 10 characters, the empty text and None,   *)
(* both classifiers answer 'other' with confidence 0 and run none of their *)
(* strategies.                                                             *)
C18_ShortTextNoStrategy ==
    (/\ call.op \in {"classify_document", "gemini_classify_document"}
     /\ (call.text = NULL \/ RawLen(call.text) < 10)) =>
        /\ call.invoked = {}
        /\ call.result.confidence = 0
        /\ call.op = "classify_document" => call.result.category = "other"
        /\ call.op = "gemini_classify_document" =>
              call.result.predicted_type = "Other"

(* A two-character text given to the service whose model is loaded. *)
C18_Witness ==
    /\ call.op = "classify_document"
    /\ mlLoaded
    /\ call.text = "tiny"
    /\ call.ml[1] # "raises"
    /\ call.result.category = "other"
    /\ call.result.confidence = 0
    /\ call.invoked = {}

C20_FirstOwningDepartment ==
    \A category \in RoutedCategories, confidence \in Confidences, text \in Texts :
        confidence >= routing_rules.confidence_threshold =>
            LET r == determine_department(routing_rules, departments,
                        [classification |-> category, confidence |-> confidence,
                         extracted_text |-> text])
                owners == {i \in DOMAIN departments :
                              category \in departments[i].categories}
            IN  /\ ~r.needs_review
                /\ owners = {} => r.department_id = routing_rules.fallback_department
                /\ \A i \in owners :
                      (\A j \in owners : i <= j) => r.department_id = departments[i].id
                /\ \A i \in owners :
                      owners = {i} => r.department_id = departments[i].id

(* 'report' is owned by operations and, later in the table, by the added   *)
(* department audit: determine_department was called and answered          *)
(* operations.                                                             *)
C20_Witness ==
    /\ call.op = "determine_department"
    /\ call.document_info.classification = "report"
    /\ call.document_info.confidence >= routing_rules.confidence_threshold
    /\ Cardinality({i \in DOMAIN departments :
                       "report" \in departments[i].categories}) = 2
    /\ call.result.department_id = "operations"
    /\ ~call.result.needs_review

-----------------------------------------------------------------------------
(* Properties of the stages taken together *)

(* C21: without a loaded model, a run that extracted the text              *)
(* "INVOICE #1 Total Due: $500.00" and routed it under the default rules   *)
(* and departments has stored category 'invoice' with confidence 0.8 (at   *)
(* least 0.7) and department finance, and the decision has priority 'high' *)
(* and no needs_review.                                                    *)
C21_InvoiceEndToEnd ==
    (/\ pc = "final"
     /\ ~mlLoaded
     /\ sess.extracted_text = "invoice"
     /\ routing_rules = DefaultRoutingRules
     /\ departments = DefaultDepartments
     /\ stage["routing"] = "completed") =>
        /\ stage["classification"] = "completed"
        /\ sess.classification = "invoice"
        /\ sess.confidence_score = 80
        /\ sess.confidence_score >= 70
        /\ sess.department = "finance"
        /\ decision.department_id = "finance"
        /\ decision.priority = "high"
        /\ ~decision.needs_review

C21_Witness ==
    /\ pc = "final"
    /\ ~mlLoaded
    /\ sess.extracted_text = "invoice"
    /\ routing_rules = DefaultRoutingRules
    /\ departments = DefaultDepartments
    /\ stage["routing"] = "completed"
    /\ decision.department_id = "finance"
    /\ decision.priority = "high"

-----------------------------------------------------------------------------
(* Properties of the summarization service *)

(* C22: with method 'auto', generate_summary selects abstractive for more  *)
(* than 500 words when the transformer is available, otherwise gensim for  *)
(* more than 100 words, otherwise extractive: one method for every input,  *)
(* decided by the word count and the availability alone, with 100 and 500  *)
(* words themselves in the lower band.                                     *)
C22_AutoSelectsByWordCount ==
    (call.op = "generate_summary" /\ call.method = "auto" /\ call.result.success) =>
        LET words == TextOf(call.text).words
            available == call.transformer # "unavailable"
            selected == call.result.method_used
        IN  /\ selected \in {"abstractive", "gensim", "extractive"}
            /\ selected = "abstractive" <=> (words > 500 /\ available)
            /\ selected = "gensim" <=> (words > 100 /\ ~(words > 500 /\ available))
            /\ selected = "extractive" <=> words <= 100
            /\ words = 100 => selected = "extractive"
            /\ words = 500 => selected = "gensim"

(* 500 words with the transformer available: gensim is selected. *)
C22_Witness ==
    /\ call.op = "generate_summary"
    /\ call.method = "auto"
    /\ call.text = "w500"
    /\ call.transformer = "ok"
    /\ call.result.success
    /\ call.result.method_used = "gensim"

(* C23 (as claimed): for every text of at least 10 characters and every    *)
(* method, fallback paths included, generate_summary returns a non-empty   *)
(* summary and a compression_ratio.                                        *)
C23_SummaryNonEmpty ==
    (call.op = "generate_summary" /\ TextOf(call.text).stripped >= 10) =>
        /\ call.result.summary_length > 0
        /\ call.result.has_ratio

(* C24 (as claimed): for the extractive, gensim and keyword methods, on    *)
(* every path, the summary is no longer than the input text and the        *)
(* compression_ratio lies in (0, 1].                                       *)
C24_SummaryNoLongerThanText ==
    (/\ call.op = "generate_summary"
     /\ call.result.success
     /\ call.result.method_used \in {"extractive", "gensim", "keyword"}) =>
        /\ call.result.summary_length <= call.result.original_length
        /\ call.result.summary_length > 0

(* C27 (as claimed): for a text of more than N sentences the extractive    *)
(* summary is made of exactly N sentences of the text, each once, in       *)
(* document order, and no sentence left out scores higher than a sentence  *)
(* taken; also with repeated sentences and sentences without content word. *)
C27_TopSentencesInDocumentOrder ==
    (/\ call.op = "generate_summary"
     /\ call.method = "extractive"
     /\ call.result.success
     /\ ~call.punkt_raises
     /\ Len(TextOf(call.text).sentences) > call.num_sentences) =>
        LET sentences == TextOf(call.text).sentences
            out == call.result.summary.sentences
            taken == {out[i] : i \in DOMAIN out}
        IN  /\ Len(out) = call.num_sentences
            /\ \A i, j \in DOMAIN out : i # j => out[i] # out[j]
            /\ \E f \in [DOMAIN out -> DOMAIN sentences] :
                  /\ \A i \in DOMAIN out : sentences[f[i]] = out[i]
                  /\ \A i, j \in DOMAIN out : i < j => f[i] < f[j]
            /\ \A i \in DOMAIN sentences :
                  sentences[i] \notin taken =>
                      \A y \in taken : y.score >= sentences[i].score

(* C29 (as claimed): method_used names the method whose code produced the  *)
(* returned summary, fallbacks included.                                   *)
C29_MethodUsedIsProducer ==
    (call.op = "generate_summary" /\ call.result.success) =>
        call.result.method_used = call.result.summary.by

-----------------------------------------------------------------------------
(* Termination *)

(* C25 (as claimed): every run that starts ends, with the document         *)
(* persisted as completed or failed: no external call of a run waits       *)
(* without bound.                                                          *)
C25_RunTerminates ==
    (pc = "get") ~> (/\ pc = "idle"
                     /\ dbDocs # <<>>
                     /\ dbDocs[1].status \in {COMPLETED, FAILED})

-----------------------------------------------------------------------------
(* The rule-based classifier *)

(* The keywords rule_based_classification tests for a category, in the     *)
(* order of its tests.                                                     *)
RuleOrder == <<"invoice", "contract", "resume", "legal_document", "report">>

RuleKeywords(category) ==
    CASE category = "invoice" ->
            {"invoice", "bill", "payment", "amount due", "total", "$", "usd",
             "subtotal"}
      [] category = "contract" ->
            {"agreement", "contract", "terms and conditions", "whereas"}
      [] category = "resume" ->
            {"experience", "education", "skills", "employment history",
             "university", "degree", "work experience"}
      [] category = "legal_document" ->
            {"court", "legal", "attorney", "law", "plaintiff", "defendant"}
      [] category = "report" ->
            {"executive summary", "conclusion", "analysis", "findings"}

(* C26 (as claimed): the rule-based classifier returns the category with   *)
(* the most matched keywords, the first of them in the order of the        *)
(* categories when several tie, and 'other' when no keyword matches.       *)
C26_RuleBasedArgmax ==
    (/\ call.op = "classify_document"
     /\ ~mlLoaded
     /\ call.text # NULL
     /\ TextLen(call.text) >= 10) =>
        LET matched(i) == Cardinality(RuleKeywords(RuleOrder[i]) \cap Keywords(call.text))
            best == {i \in DOMAIN RuleOrder :
                        /\ \A j \in DOMAIN RuleOrder : matched(j) <= matched(i)
                        /\ \A j \in 1..(i - 1) : matched(j) < matched(i)}
        IN  IF \A i \in DOMAIN RuleOrder : matched(i) = 0
            THEN call.result.category = "other"
            ELSE \A i \in best : call.result.category = RuleOrder[i]

-----------------------------------------------------------------------------
(* Concurrent requests *)

InFlight == {w \in Requests : workers[w] # "none"}

(* C28 (as claimed): whatever the interleaving of concurrent upload and    *)
(* /api/process requests, at most one run of process_document_pipeline is  *)
(* executing on the document.                                              *)
C28_OneRunInFlight == Cardinality(InFlight) <= 1

-----------------------------------------------------------------------------
(* Rule-based classification and the default threshold *)

(* C30: without a loaded model and with the default routing rules, a text  *)
(* the rule-based classifier labels 'report' (0.6) or 'other' (0.5) is     *)
(* routed to archive with needs_review set, in the service and in the      *)
(* runs of the pipeline; with the default departments no text it           *)
(* classifies is routed to operations or management.                       *)
C30_RuleBasedNeverReachesOperations ==
    (~mlLoaded /\ routing_rules = DefaultRoutingRules) =>
        /\ \A text \in ServiceTexts \ {NULL} :
              TextLen(text) >= 10 =>
                  LET c == classify_document(text, mlLoaded, <<"raises", 0>>)
                      r == determine_department(routing_rules, departments,
                              [classification |-> c.category,
                               confidence |-> c.confidence,
                               extracted_text |-> text])
                  IN  /\ c.method = "rule_based"
                      /\ c.category = "report" => c.confidence = 60
                      /\ c.category = "other" => c.confidence = 50
                      /\ c.category \in {"report", "other"} =>
                            r.department_id = "archive" /\ r.needs_review
                      /\ departments = DefaultDepartments =>
                            r.department_id \notin {"operations", "management"}
        /\ (pc = "final" /\ stage["routing"] = "completed") =>
              /\ (/\ stage["classification"] = "completed"
                  /\ sess.classification \in {"report", "other"}) =>
                        decision.department_id = "archive" /\ decision.needs_review
              /\ departments = DefaultDepartments =>
                    decision.department_id \notin {"operations", "management"}

(* A run classified "URGENT and confidential: see the analysis today" as a *)
(* report with confidence 0.6 and routed it.                               *)
C30_Witness ==
    /\ pc = "final"
    /\ ~mlLoaded
    /\ routing_rules = DefaultRoutingRules
    /\ stage["classification"] = "completed"
    /\ stage["routing"] = "completed"
    /\ sess.extracted_text = "memo"
    /\ sess.classification = "report"
    /\ sess.confidence_score = 60
    /\ decision.department_id = "archive"
    /\ decision.needs_review

====
